---- MODULE Spec2Model ----
(***************************************************************************)
(* Model of static/js/dashboard.js: the Update Orchestrator (interval      *)
(* timer, refreshData fan-out over six fetch-and-render units, page        *)
(* visibility handling) and the Location Resolution Engine                 *)
(* (parseLocationInput, updateUserLocation, useCurrentLocation,            *)
(* findNearestLocation).                                                   *)
(*                                                                         *)
(* Text is a sequence of one-character strings.  Coordinates are integers  *)
(* in hundredths of a grid unit (3.5 is 350), GPS fixes in hundredths of a *)
(* degree.                                                                 *)
(***************************************************************************)
EXTENDS Integers, Sequences, FiniteSets, TLC

----------------------------------------------------------------------------
(* Bounds of the model *)

\* number of interval-timer ids the environment hands out; an id is reused
\* once its timer has been cleared
MaxTimers == 3
\* refreshData() cycles that may be in flight at the same time
MaxOpen == 1
\* location-triggered updateRecommendations()/updateMap() pairs in flight
MaxLocCalls == 2
\* refreshData() cycles that may be in flight at the same time where cycles
\* are followed while they overlap
MaxOverlap == 2
\* getCurrentPosition() requests awaiting their callback
MaxGps == 1

----------------------------------------------------------------------------
(* Values *)

\* JavaScript null in updateInterval
Null == 0

\* the value of a missing property (lat/lng of an object that has none);
\* every comparison of it with a number is false
Undefined == -1

\* the factor that turns a coordinate into an integer
Scale == 100

\* city bounds of parseLocationInput and of the GPS clamp
MaxLat == 20 * Scale
MaxLng == 15 * Scale

Digits == <<"0", "1", "2", "3", "4", "5", "6", "7", "8", "9">>

UpperCase == <<"A", "B", "C", "D", "E", "F", "G", "H", "I", "J", "K", "L", "M",
               "N", "O", "P", "Q", "R", "S", "T", "U", "V", "W", "X", "Y", "Z">>

LowerCase == <<"a", "b", "c", "d", "e", "f", "g", "h", "i", "j", "k", "l", "m",
               "n", "o", "p", "q", "r", "s", "t", "u", "v", "w", "x", "y", "z">>

\* characters matched by String.prototype.trim and by \s
WhiteSpace == {" ", "\t", "\n"}

----------------------------------------------------------------------------
(* locationDatabase, in declaration order (the order of Object.entries) *)

locationDatabase ==
  <<
    [key |-> <<"d", "o", "w", "n", "t", "o", "w", "n", " ", "p", "l", "a", "z", "a">>,
     lat |-> 300, lng |-> 300, type |-> "business"],  \* line 13: 'downtown plaza'
    [key |-> <<"s", "h", "o", "p", "p", "i", "n", "g", " ", "m", "a", "l", "l">>,
     lat |-> 800, lng |-> 700, type |-> "shopping"],  \* line 14: 'shopping mall'
    [key |-> <<"t", "r", "a", "i", "n", " ", "s", "t", "a", "t", "i", "o", "n">>,
     lat |-> 1200, lng |-> 200, type |-> "transit"],  \* line 15: 'train station'
    [key |-> <<"o", "f", "f", "i", "c", "e", " ", "c", "o", "m", "p", "l", "e", "x">>,
     lat |-> 600, lng |-> 1100, type |-> "business"],  \* line 16: 'office complex'
    [key |-> <<"c", "i", "t", "y", " ", "p", "a", "r", "k">>,
     lat |-> 1500, lng |-> 800, type |-> "leisure"],  \* line 17: 'city park'
    [key |-> <<"d", "o", "w", "n", "t", "o", "w", "n">>,
     lat |-> 300, lng |-> 300, type |-> "business"],  \* line 20: 'downtown'
    [key |-> <<"m", "a", "l", "l">>,
     lat |-> 800, lng |-> 700, type |-> "shopping"],  \* line 21: 'mall'
    [key |-> <<"s", "t", "a", "t", "i", "o", "n">>,
     lat |-> 1200, lng |-> 200, type |-> "transit"],  \* line 22: 'station'
    [key |-> <<"o", "f", "f", "i", "c", "e">>,
     lat |-> 600, lng |-> 1100, type |-> "business"],  \* line 23: 'office'
    [key |-> <<"p", "a", "r", "k">>,
     lat |-> 1500, lng |-> 800, type |-> "leisure"],  \* line 24: 'park'
    [key |-> <<"c", "i", "t", "y", " ", "c", "e", "n", "t", "e", "r">>,
     lat |-> 1000, lng |-> 500, type |-> "business"],  \* line 27: 'city center'
    [key |-> <<"m", "a", "i", "n", " ", "s", "t", "r", "e", "e", "t">>,
     lat |-> 500, lng |-> 500, type |-> "business"],  \* line 28: 'main street'
    [key |-> <<"b", "u", "s", "i", "n", "e", "s", "s", " ", "d", "i", "s", "t", "r", "i", "c", "t">>,
     lat |-> 400, lng |-> 400, type |-> "business"],  \* line 29: 'business district'
    [key |-> <<"s", "h", "o", "p", "p", "i", "n", "g", " ", "d", "i", "s", "t", "r", "i", "c", "t">>,
     lat |-> 700, lng |-> 600, type |-> "shopping"],  \* line 30: 'shopping district'
    [key |-> <<"u", "n", "i", "v", "e", "r", "s", "i", "t", "y", " ", "a", "r", "e", "a">>,
     lat |-> 900, lng |-> 900, type |-> "education"],  \* line 31: 'university area'
    [key |-> <<"h", "o", "s", "p", "i", "t", "a", "l", " ", "d", "i", "s", "t", "r", "i", "c", "t">>,
     lat |-> 1100, lng |-> 1200, type |-> "healthcare"],  \* line 32: 'hospital district'
    [key |-> <<"r", "e", "s", "i", "d", "e", "n", "t", "i", "a", "l", " ", "a", "r", "e", "a">>,
     lat |-> 200, lng |-> 1300, type |-> "residential"],  \* line 33: 'residential area'
    [key |-> <<"c", "e", "n", "t", "r", "a", "l">>,
     lat |-> 1000, lng |-> 750, type |-> "business"],  \* line 36: 'central'
    [key |-> <<"n", "o", "r", "t", "h">>,
     lat |-> 1000, lng |-> 1200, type |-> "residential"],  \* line 37: 'north'
    [key |-> <<"s", "o", "u", "t", "h">>,
     lat |-> 1000, lng |-> 300, type |-> "business"],  \* line 38: 'south'
    [key |-> <<"e", "a", "s", "t">>,
     lat |-> 1500, lng |-> 750, type |-> "mixed"],  \* line 39: 'east'
    [key |-> <<"w", "e", "s", "t">>,
     lat |-> 500, lng |-> 750, type |-> "mixed"]   \* line 40: 'west'
  >>

\* property names every object inherits from Object.prototype that are
\* unchanged by toLowerCase(): locationDatabase[name] is truthy for them
InheritedKeys ==
  { <<"c", "o", "n", "s", "t", "r", "u", "c", "t", "o", "r">>,
    <<"_", "_", "p", "r", "o", "t", "o", "_", "_">> }

----------------------------------------------------------------------------
(* String operations *)

IsDigit(c) == \E i \in 1..Len(Digits) : Digits[i] = c

DigitVal(c) == (CHOOSE i \in 1..Len(Digits) : Digits[i] = c) - 1

\* String.prototype.toLowerCase on one character
LowerChar(c) ==
  IF \E i \in 1..Len(UpperCase) : UpperCase[i] = c
  THEN LowerCase[CHOOSE i \in 1..Len(UpperCase) : UpperCase[i] = c]
  ELSE c

toLowerCase(s) == [i \in 1..Len(s) |-> LowerChar(s[i])]

RECURSIVE trimStart(_)
trimStart(s) ==
  IF s # <<>> /\ Head(s) \in WhiteSpace THEN trimStart(Tail(s)) ELSE s

RECURSIVE trimEnd(_)
trimEnd(s) ==
  IF s # <<>> /\ s[Len(s)] \in WhiteSpace
  THEN trimEnd(SubSeq(s, 1, Len(s) - 1))
  ELSE s

\* the text taken as it is, with its white space
NoTrim(s) == s

trim(s) == trimEnd(trimStart(s))

\* String.prototype.includes
includes(hay, needle) ==
  \E i \in 0..(Len(hay) - Len(needle)) : SubSeq(hay, i + 1, i + Len(needle)) = needle

----------------------------------------------------------------------------
(* The coordinate pattern of parseLocationInput (two decimal numbers with a *)
(* comma and optional white space between them) and parseFloat             *)

\* first position at or after i that does not hold a digit
RECURSIVE DigitRunEnd(_, _)
DigitRunEnd(s, i) ==
  IF i <= Len(s) /\ IsDigit(s[i]) THEN DigitRunEnd(s, i + 1) ELSE i

\* first position at or after i that does not hold white space
RECURSIVE SpaceRunEnd(_, _)
SpaceRunEnd(s, i) ==
  IF i <= Len(s) /\ s[i] \in WhiteSpace THEN SpaceRunEnd(s, i + 1) ELSE i

CharAt(s, i) == IF i >= 1 /\ i <= Len(s) THEN s[i] ELSE ""

\* end (exclusive) of the longest number (digits, optional dot, digits)
\* starting at i, or i if none
NumberEnd(s, i) ==
  LET e == DigitRunEnd(s, i)
  IN IF e = i THEN i
     ELSE IF CharAt(s, e) = "." THEN DigitRunEnd(s, e + 1) ELSE e

\* position of the comma that ends a first group starting at i, or 0:
\* the group is a digit run, or a digit run, a dot and a digit run, and the
\* comma follows it directly
CommaAfterFirst(s, i) ==
  LET e == DigitRunEnd(s, i)
  IN IF e = i THEN 0
     ELSE IF CharAt(s, e) = "," THEN e
     ELSE IF CharAt(s, e) = "." /\ CharAt(s, DigitRunEnd(s, e + 1)) = ","
          THEN DigitRunEnd(s, e + 1)
          ELSE 0

\* does the pattern match with the match starting at i
MatchesAt(s, i) ==
  LET c == CommaAfterFirst(s, i)
  IN c # 0 /\ NumberEnd(s, SpaceRunEnd(s, c + 1)) # SpaceRunEnd(s, c + 1)

\* parseFloat of a text matched by a group of the pattern, in hundredths; digits after
\* the second decimal are beyond the resolution of the model
parseFloat(t) ==
  LET e == DigitRunEnd(t, 1)
      RECURSIVE IntVal(_)
      IntVal(k) == IF k = 0 THEN 0 ELSE 10 * IntVal(k - 1) + DigitVal(t[k])
      d1 == IF e + 1 <= Len(t) THEN DigitVal(t[e + 1]) ELSE 0
      d2 == IF e + 2 <= Len(t) THEN DigitVal(t[e + 2]) ELSE 0
  IN IntVal(e - 1) * Scale + 10 * d1 + d2

\* locationText.match(...): [ok, lat, lng] from the leftmost match
coordMatch(s) ==
  IF \E i \in 1..Len(s) : MatchesAt(s, i)
  THEN LET i == CHOOSE k \in 1..Len(s) :
                  MatchesAt(s, k) /\ \A j \in 1..(k - 1) : ~MatchesAt(s, j)
           c == CommaAfterFirst(s, i)
           w == SpaceRunEnd(s, c + 1)
       IN [ok |-> TRUE,
           lat |-> parseFloat(SubSeq(s, i, c - 1)),
           lng |-> parseFloat(SubSeq(s, w, NumberEnd(s, w) - 1))]
  ELSE [ok |-> FALSE, lat |-> 0, lng |-> 0]

----------------------------------------------------------------------------
(* parseLocationInput *)

\* the result of parseLocationInput for empty input (null)
NoLocation ==
  [lat |-> Undefined, lng |-> Undefined, name |-> <<>>, type |-> "none",
   confidence |-> "null", match |-> <<>>]

\* index of the own property of locationDatabase named k, or 0
OwnKey(k) ==
  IF \E i \in 1..Len(locationDatabase) : locationDatabase[i].key = k
  THEN CHOOSE i \in 1..Len(locationDatabase) : locationDatabase[i].key = k
  ELSE 0

\* a lookup that never finds an entry
LookupSkipped(k) == FALSE

\* is locationDatabase[k] truthy: an own entry or an inherited property
LookupTruthy(k) == OwnKey(k) # 0 \/ k \in InheritedKeys

\* {...locationDatabase[k], name: ..., confidence: 'exact'}: spreading an
\* inherited property (a function, Object.prototype) copies no lat, lng or type
ExactResult(k, name) ==
  IF OwnKey(k) # 0
  THEN [lat |-> locationDatabase[OwnKey(k)].lat,
        lng |-> locationDatabase[OwnKey(k)].lng,
        name |-> name, type |-> locationDatabase[OwnKey(k)].type,
        confidence |-> "exact", match |-> <<>>]
  ELSE [lat |-> Undefined, lng |-> Undefined, name |-> name,
        type |-> "undefined", confidence |-> "exact", match |-> <<>>]

\* key.includes(normalizedText) || normalizedText.includes(key)
PartialQualifies(i, n) ==
  includes(locationDatabase[i].key, n) \/ includes(n, locationDatabase[i].key)

\* index of the last element of partialMatches, or 0
LastPartial(n) ==
  IF \E i \in 1..Len(locationDatabase) : PartialQualifies(i, n)
  THEN CHOOSE i \in 1..Len(locationDatabase) :
         PartialQualifies(i, n)
         /\ \A j \in (i + 1)..Len(locationDatabase) : ~PartialQualifies(j, n)
  ELSE 0

\* index of partialMatches[0], or 0 when partialMatches is empty
FirstPartial(n) ==
  IF \E i \in 1..Len(locationDatabase) : PartialQualifies(i, n)
  THEN CHOOSE i \in 1..Len(locationDatabase) :
         PartialQualifies(i, n) /\ \A j \in 1..(i - 1) : ~PartialQualifies(j, n)
  ELSE 0

\* bounds that leave out the far edges of the city
CoordStrictlyInside(lat, lng) == lat >= 0 /\ lat < MaxLat /\ lng >= 0 /\ lng < MaxLng

\* no bounds at all
AnyCoordinates(lat, lng) == TRUE

\* lat >= 0 && lat <= 20 && lng >= 0 && lng <= 15
CoordInBounds(lat, lng) == lat >= 0 /\ lat <= MaxLat /\ lng >= 0 /\ lng <= MaxLng

\* parseLocationInput(locationText); randomLat and randomLng are the values
\* of Math.random() * 20 and Math.random() * 15 it would draw
parseLocationInput(locationText, randomLat, randomLng) ==
  IF trim(locationText) = <<>> THEN NoLocation
  ELSE
    LET normalizedText == trim(toLowerCase(locationText))
        p == FirstPartial(normalizedText)
        m == coordMatch(locationText)
    IN IF LookupTruthy(normalizedText)
       THEN ExactResult(normalizedText, trim(locationText))
       ELSE IF p # 0
       THEN [lat |-> locationDatabase[p].lat, lng |-> locationDatabase[p].lng,
             name |-> locationDatabase[p].key, type |-> locationDatabase[p].type,
             confidence |-> "partial", match |-> locationDatabase[p].key]
       ELSE IF m.ok /\ CoordInBounds(m.lat, m.lng)
       THEN [lat |-> m.lat, lng |-> m.lng, name |-> trim(locationText),
             type |-> "custom", confidence |-> "coordinates", match |-> <<>>]
       ELSE [lat |-> randomLat, lng |-> randomLng, name |-> trim(locationText),
             type |-> "unknown", confidence |-> "estimated", match |-> <<>>]

----------------------------------------------------------------------------
(* useCurrentLocation: GPS conversion and findNearestLocation *)

Max(a, b) == IF a >= b THEN a ELSE b
Min(a, b) == IF a <= b THEN a ELSE b

\* cityLat, not clamped
UnclampedLat(gpsLat) == (gpsLat - 40 * Scale) * 20 + 10 * Scale

\* Math.max(0, Math.min(20, ((lat - 40.0) * 20) + 10)), lat in 1/100 degree
clampedLat(gpsLat) == Max(0, Min(MaxLat, (gpsLat - 40 * Scale) * 20 + 10 * Scale))

\* Math.max(0, Math.min(15, ((lng + 74.0) * 15) + 7.5))
clampedLng(gpsLng) == Max(0, Min(MaxLng, (gpsLng + 74 * Scale) * 15 + (15 * Scale) \div 2))

\* the square of the distance findNearestLocation compares; Math.sqrt keeps
\* the order of these squares
SqDistance(i, lat, lng) ==
  (locationDatabase[i].lat - lat) * (locationDatabase[i].lat - lat)
  + (locationDatabase[i].lng - lng) * (locationDatabase[i].lng - lng)

\* the loop with distance <= minDistance: the last of the nearest entries
RECURSIVE NearestIndexLast(_, _, _)
NearestIndexLast(n, lat, lng) ==
  IF n = 0 THEN 0
  ELSE LET best == NearestIndexLast(n - 1, lat, lng)
       IN IF best = 0 \/ SqDistance(n, lat, lng) <= SqDistance(best, lat, lng)
          THEN n
          ELSE best

\* the loop of findNearestLocation over entries 1..n: index of nearestLocation
\* (0 while it is null)
RECURSIVE NearestIndex(_, _, _)
NearestIndex(n, lat, lng) ==
  IF n = 0 THEN 0
  ELSE LET best == NearestIndex(n - 1, lat, lng)
       IN IF best = 0 \/ SqDistance(n, lat, lng) < SqDistance(best, lat, lng)
          THEN n
          ELSE best

CustomLocationName == <<"C", "u", "s", "t", "o", "m", " ", "L", "o", "c", "a", "t", "i", "o", "n">>

\* findNearestLocation(lat, lng)
findNearestLocation(lat, lng) ==
  LET i == NearestIndex(Len(locationDatabase), lat, lng)
  IN IF i = 0
     THEN [name |-> CustomLocationName, lat |-> lat, lng |-> lng]
     ELSE [name |-> locationDatabase[i].key, lat |-> locationDatabase[i].lat,
           lng |-> locationDatabase[i].lng]

----------------------------------------------------------------------------
(* State *)

VARIABLES
  updateInterval,  \* the global updateInterval: Null or the id of a timer
  timers,          \* ids of the interval timers that are armed
  hidden,          \* document.hidden
  loaded,          \* DOMContentLoaded has fired
  userLocation,    \* the global userLocation: [lat, lng, name]
  calls,           \* invocations of refreshData (until the slot is used
                   \* again) and fetches in flight of the
                   \* updateRecommendations/updateMap pairs, by slot
  sections,        \* what each unit's section of the page shows
  lastUpdated,     \* slot of the cycle that last wrote 'last-updated', 0: never
  gpsPending,      \* getCurrentPosition requests awaiting their callback
  lastPageEvent,   \* most recent of load / visible / hidden / unload
  notice           \* the notifications (showError/showSuccess) raised by the
                   \* handler that ran last

vars ==
  <<updateInterval, timers, hidden, loaded, userLocation, calls, sections,
    lastUpdated, gpsPending, lastPageEvent, notice>>

orchVars == <<updateInterval, timers, hidden, loaded, lastPageEvent>>

locVars == <<userLocation, gpsPending>>

\* the six units refreshData starts
Units == {"stats", "lots", "recs", "junctions", "predictions", "map"}

\* the units a location change starts
LocationUnits == {"recs", "map"}

RefreshSlots == 1..MaxOpen

LocSlots == (MaxOpen + 1)..(MaxOpen + MaxLocCalls)

Slots == RefreshSlots \cup LocSlots

TimerIds == 1..MaxTimers

\* let userLocation = { lat: 3.0, lng: 3.0, name: "Downtown Plaza" }
DefaultLocation ==
  [lat |-> 3 * Scale, lng |-> 3 * Scale,
   name |-> <<"D", "o", "w", "n", "t", "o", "w", "n", " ", "P", "l", "a", "z", "a">>]

FreeCall ==
  [phase |-> "free", kind |-> "none", pending |-> {}, failed |-> {},
   logged |-> {}, stamps |-> 0, caught |-> FALSE,
   lat |-> Undefined, lng |-> Undefined]

\* a section before its unit has rendered anything
InitialSection == [kind |-> "initial", lat |-> Undefined, lng |-> Undefined]

DataSection == [kind |-> "data", lat |-> Undefined, lng |-> Undefined]

ErrorSection == [kind |-> "error", lat |-> Undefined, lng |-> Undefined]

Init ==
  /\ updateInterval = Null
  /\ timers = {}
  /\ hidden \in BOOLEAN
  /\ loaded = FALSE
  /\ userLocation = DefaultLocation
  /\ calls = [c \in Slots |-> FreeCall]
  /\ sections = [u \in Units |-> InitialSection]
  /\ lastUpdated = 0
  /\ gpsPending = 0
  /\ lastPageEvent = "none"
  /\ notice = <<>>

----------------------------------------------------------------------------
(* Timer *)

\* the id setInterval returns: one that no armed timer has
FreshTimer(ts) == CHOOSE id \in TimerIds \ ts : \A j \in TimerIds \ ts : id <= j

CanArm(ts) == TimerIds \ ts # {}

\* startRealTimeUpdates: updateInterval = setInterval(refreshData, 3000)
startRealTimeUpdates(ui, ts) ==
  [updateInterval |-> FreshTimer(ts), timers |-> ts \cup {FreshTimer(ts)}]

\* a stop that clears the timer and keeps its id in updateInterval
StopKeepsId(ui, ts) == [updateInterval |-> ui, timers |-> ts \ {ui}]

\* stopRealTimeUpdates: if (updateInterval) { clearInterval; = null }
stopRealTimeUpdates(ui, ts) ==
  IF ui # Null
  THEN [updateInterval |-> Null, timers |-> ts \ {ui}]
  ELSE [updateInterval |-> ui, timers |-> ts]

----------------------------------------------------------------------------
(* Fetch-and-render units *)

\* the recommendations unit without its try/catch
CatchesExceptRecommendations(u) == u # "recs"

\* every unit wraps its fetch and rendering in try/catch
UnitCatches(u) == TRUE

\* the catch block of updateMap only logging
MarkupWithoutMap(u) == u \in {"lots", "recs", "junctions"}

\* units whose catch block replaces the section by an error message;
\* updateSystemStats and updatePredictions only log
ShowsErrorMarkup(u) == u \in {"lots", "recs", "junctions", "map"}

\* does rendering throw once the data has arrived: renderMap calls
\* userLocation.lat.toFixed and userLocation.lng.toFixed
RenderThrows(u, ul) == u = "map" /\ (ul.lat = Undefined \/ ul.lng = Undefined)

\* the section after the catch block of unit u has run
CatchEffect(u, sec) == IF ShowsErrorMarkup(u) THEN ErrorSection ELSE sec

\* the section after the success branch of unit u has rendered the data of
\* a request made for (reqLat, reqLng)
RenderEffect(u, reqLat, reqLng) ==
  IF u = "recs" THEN [kind |-> "data", lat |-> reqLat, lng |-> reqLng]
  ELSE DataSection

\* a unit whose catch block logs the error and throws it again
UnitRethrows(u, outcome, sec, reqLat, reqLng, ul) ==
  IF outcome = "ok" /\ ~RenderThrows(u, ul)
  THEN [section |-> RenderEffect(u, reqLat, reqLng), logged |-> FALSE,
        rejected |-> FALSE]
  ELSE [section |-> CatchEffect(u, sec), logged |-> TRUE, rejected |-> TRUE]

\* one unit from the arrival of its response: outcome is "ok" (response.ok),
\* "bad" (a non-success response) or "neterr" (fetch or json() throws).
\* section: what the section shows afterwards; logged: console.error ran;
\* rejected: the error left the unit
UnitEffect(u, outcome, sec, reqLat, reqLng, ul) ==
  IF outcome = "ok" /\ ~RenderThrows(u, ul)
  THEN [section |-> RenderEffect(u, reqLat, reqLng), logged |-> FALSE,
        rejected |-> FALSE]
  ELSE IF UnitCatches(u)
  THEN [section |-> CatchEffect(u, sec), logged |-> TRUE, rejected |-> FALSE]
  ELSE [section |-> sec, logged |-> FALSE, rejected |-> TRUE]

Outcomes == {"ok", "bad", "neterr"}

\* fulfilled as soon as one unit has settled
AnySettled(pending) == pending # Units

\* Promise.all of the units is fulfilled: none of them is pending
AllSettled(pending) == pending = {}

\* slot for a new invocation
CanStart(cs, slots) == \E c \in slots : cs[c].phase # "open" /\ cs[c].pending = {}

NextSlot(cs, slots) ==
  CHOOSE c \in slots :
    /\ cs[c].phase # "open" /\ cs[c].pending = {}
    /\ \A d \in slots : (cs[d].phase # "open" /\ cs[d].pending = {}) => c <= d

\* the synchronous part of a fan-out: every unit issues its fetch; the
\* recommendations request carries the userLocation of that moment
StartCall(cs, slots, kind, units, ul) ==
  [cs EXCEPT ![NextSlot(cs, slots)] =
     [phase |-> "open", kind |-> kind, pending |-> units, failed |-> {},
      logged |-> {}, stamps |-> 0, caught |-> FALSE,
      lat |-> ul.lat, lng |-> ul.lng]]

\* refreshData up to its await
refreshData(cs, ul) == StartCall(cs, RefreshSlots, "refresh", Units, ul)

\* a refreshData that is no longer invoked once a cycle has had a failure
CanRefreshUnlessFailed ==
  /\ CanStart(calls, RefreshSlots)
  /\ \A c \in RefreshSlots : calls[c].failed = {}

CanRefresh == CanStart(calls, RefreshSlots)

\* a location change that starts all six units and awaits them, as
\* refreshData does
LocationRefreshes(cs, ul) == StartCall(cs, LocSlots, "refresh", Units, ul)

\* updateRecommendations(); updateMap() of a location change
LocationCall(cs, ul) == StartCall(cs, LocSlots, "loc", LocationUnits, ul)

CanLocationCall == CanStart(calls, LocSlots)

RefreshFailed == [type |-> "error", text |-> "Failed to refresh data"]

\* The response of unit u of invocation c arrives; the unit renders or
\* handles its error, and when it was the last one the awaiting refreshData
\* goes on to write the time stamp.  Nothing awaits the two units of a
\* location change: their slot only holds the fetches still in flight
Settle(c, u, outcome) ==
  /\ calls[c].phase # "free"
  /\ u \in calls[c].pending
  /\ LET r == UnitEffect(u, outcome, sections[u], calls[c].lat, calls[c].lng,
                         userLocation)
         rest == calls[c].pending \ {u}
         awaited == calls[c].phase = "open" /\ calls[c].kind = "refresh"
         fulfilled == awaited /\ ~r.rejected /\ AllSettled(rest)
         rejected == awaited /\ r.rejected
     IN /\ sections' = [sections EXCEPT ![u] = r.section]
        /\ calls' = [calls EXCEPT ![c] =
             IF calls[c].kind = "loc"
             THEN IF rest = {} THEN FreeCall
                  ELSE [@ EXCEPT !.pending = rest,
                                 !.lat = IF u = "recs" THEN Undefined ELSE @,
                                 !.lng = IF u = "recs" THEN Undefined ELSE @]
             ELSE [@ EXCEPT !.pending = rest,
                            !.failed = IF outcome # "ok" THEN @ \cup {u} ELSE @,
                            !.logged = IF r.logged THEN @ \cup {u} ELSE @,
                            !.phase = IF fulfilled \/ rejected THEN "done" ELSE @,
                            !.stamps = IF fulfilled THEN @ + 1 ELSE @,
                            !.caught = IF rejected THEN TRUE ELSE @,
                            !.lat = IF u = "recs" THEN Undefined ELSE @,
                            !.lng = IF u = "recs" THEN Undefined ELSE @]]
        /\ lastUpdated' = IF fulfilled THEN c ELSE lastUpdated
        /\ notice' = IF rejected THEN <<RefreshFailed>> ELSE <<>>
  /\ UNCHANGED <<orchVars, locVars>>

----------------------------------------------------------------------------
(* Page events *)

\* DOMContentLoaded: startRealTimeUpdates(); refreshData()
DOMContentLoaded ==
  /\ ~loaded
  /\ CanArm(timers) /\ CanRefresh
  /\ loaded' = TRUE
  /\ updateInterval' = startRealTimeUpdates(updateInterval, timers).updateInterval
  /\ timers' = startRealTimeUpdates(updateInterval, timers).timers
  /\ calls' = refreshData(calls, userLocation)
  /\ lastPageEvent' = "load"
  /\ notice' = <<>>
  /\ UNCHANGED <<hidden, locVars, sections, lastUpdated>>

\* visibilitychange with document.hidden: stopRealTimeUpdates().  Visibility
\* and unload events are followed from DOMContentLoaded on, when the chart
\* the predictions unit draws on exists
PageHidden ==
  /\ loaded /\ ~hidden
  /\ hidden' = TRUE
  /\ updateInterval' = stopRealTimeUpdates(updateInterval, timers).updateInterval
  /\ timers' = stopRealTimeUpdates(updateInterval, timers).timers
  /\ lastPageEvent' = "hidden"
  /\ notice' = <<>>
  /\ UNCHANGED <<loaded, locVars, calls, sections, lastUpdated>>

\* becoming visible without the immediate refreshData()
PageVisibleNoRefresh ==
  /\ loaded /\ hidden
  /\ CanArm(timers) /\ CanRefresh
  /\ hidden' = FALSE
  /\ updateInterval' = startRealTimeUpdates(updateInterval, timers).updateInterval
  /\ timers' = startRealTimeUpdates(updateInterval, timers).timers
  /\ lastPageEvent' = "visible"
  /\ notice' = <<>>
  /\ UNCHANGED <<loaded, locVars, calls, sections, lastUpdated>>

\* visibilitychange with the page visible: startRealTimeUpdates(); refreshData()
PageVisible ==
  /\ loaded /\ hidden
  /\ CanArm(timers) /\ CanRefresh
  /\ hidden' = FALSE
  /\ updateInterval' = startRealTimeUpdates(updateInterval, timers).updateInterval
  /\ timers' = startRealTimeUpdates(updateInterval, timers).timers
  /\ calls' = refreshData(calls, userLocation)
  /\ lastPageEvent' = "visible"
  /\ notice' = <<>>
  /\ UNCHANGED <<loaded, locVars, sections, lastUpdated>>

\* beforeunload: stopRealTimeUpdates(); the page lives on when the user
\* cancels the unload
BeforeUnload ==
  /\ loaded
  /\ updateInterval' = stopRealTimeUpdates(updateInterval, timers).updateInterval
  /\ timers' = stopRealTimeUpdates(updateInterval, timers).timers
  /\ lastPageEvent' = "unload"
  /\ notice' = <<>>
  /\ UNCHANGED <<hidden, loaded, locVars, calls, sections, lastUpdated>>

\* a tick that puts the default location back
TimerTickResetsLocation(t) ==
  /\ t \in timers
  /\ CanRefresh
  /\ calls' = refreshData(calls, userLocation)
  /\ notice' = <<>>
  /\ userLocation' = DefaultLocation
  /\ UNCHANGED <<orchVars, gpsPending, sections, lastUpdated>>

\* an armed interval timer fires: refreshData()
TimerTick(t) ==
  /\ t \in timers
  /\ CanRefresh
  /\ calls' = refreshData(calls, userLocation)
  /\ notice' = <<>>
  /\ UNCHANGED <<orchVars, locVars, sections, lastUpdated>>

----------------------------------------------------------------------------
(* Location handling *)

\* texts the user submits in the location field
LocInputs ==
  { <<>>,
    <<" ", "\t">>,
    <<"M", "a", "l", "l">>,
    <<"t", "o", "w", "n">>,
    <<"3", ".", "5", ",", " ", "4", ".", "2">>,
    <<"9", "9", ",", " ", "9", "9">>,
    <<"9", "9", ",", " ", "9", "9", " ", "/", " ", "3", ".", "5", ",", " ", "4", ".", "2">>,
    <<"c", "o", "n", "s", "t", "r", "u", "c", "t", "o", "r">> }

\* arguments of the quick location buttons
QuickLocations ==
  { <<"T", "r", "a", "i", "n", " ", "S", "t", "a", "t", "i", "o", "n">> }

\* values of Math.random() * 20 and Math.random() * 15: any point of
\* [0,20) and [0,15); the ends of the ranges stand for them
RandomLats == {0, MaxLat - 1}

RandomLngs == {MaxLng - 1}

\* position.coords of a GPS fix, in hundredths of a degree: the reference
\* point of the conversion and a fix far outside the city
GpsFixes == { <<4000, -7400>>, <<5150, -12>> }

\* error.code of the error callback
GpsErrors == {"PERMISSION_DENIED", "POSITION_UNAVAILABLE", "TIMEOUT"}

\* navigator.geolocation exists
GeolocationSupported == TRUE

EnterLocation == [type |-> "error", text |-> "Please enter a location"]

LocationNotFound == [type |-> "error", text |-> "Location not found"]

\* the success message of updateUserLocation, by confidence
UpdatedMessage(confidence) ==
  [type |-> "success",
   text |-> IF confidence = "partial" THEN "Found similar location"
            ELSE IF confidence = "estimated" THEN "Estimated location"
            ELSE "Location updated"]

MovedTo == [type |-> "success", text |-> "Moved to"]

GpsDetected == [type |-> "success", text |-> "GPS location detected"]

GpsFailed(code) == [type |-> "error", text |-> code]

GeolocationUnsupported == [type |-> "error", text |-> "Geolocation is not supported"]

\* parseLocationInput on the texts and random draws of the model, computed
\* once
ParseTable ==
  [t \in {trim(x) : x \in LocInputs \cup QuickLocations} |->
     [a \in RandomLats |-> [b \in RandomLngs |-> parseLocationInput(t, a, b)]]]

\* findNearestLocation on the GPS fixes of the model, computed once
NearestTable ==
  [f \in GpsFixes |-> findNearestLocation(clampedLat(f[1]), clampedLng(f[2]))]

\* does updateUserLocation return before it touches userLocation
UpdateRejects(text) ==
  \/ trim(text) = <<>>
  \/ \A a \in RandomLats, b \in RandomLngs : ParseTable[trim(text)][a][b] = NoLocation

\* updateUserLocation() with the input field holding text; extra: what the
\* caller shows afterwards (setQuickLocation)
UpdateBody(text, randomLat, randomLng, extra) ==
  LET locationText == trim(text)
      parsedLocation == ParseTable[locationText][randomLat][randomLng]
  IN IF locationText = <<>>
     THEN /\ notice' = <<EnterLocation>> \o extra
          /\ UNCHANGED <<userLocation, calls>>
     ELSE IF parsedLocation = NoLocation
     THEN /\ notice' = <<LocationNotFound>> \o extra
          /\ UNCHANGED <<userLocation, calls>>
     ELSE /\ userLocation' = [lat |-> parsedLocation.lat,
                              lng |-> parsedLocation.lng,
                              name |-> parsedLocation.name]
          /\ notice' = <<UpdatedMessage(parsedLocation.confidence)>> \o extra
          /\ calls' = LocationCall(calls, userLocation')

\* the user submits the location field holding text (button or Enter key);
\* the field is read only here, so its content is the input of the step
UpdateUserLocation(text, randomLat, randomLng) ==
  /\ UpdateRejects(text) \/ CanLocationCall
  /\ UpdateBody(text, randomLat, randomLng, <<>>)
  /\ UNCHANGED <<orchVars, gpsPending, sections, lastUpdated>>

\* setQuickLocation(locationName): fills the field, updateUserLocation(),
\* showSuccess
SetQuickLocation(locationName, randomLat, randomLng) ==
  /\ UpdateRejects(locationName) \/ CanLocationCall
  /\ UpdateBody(locationName, randomLat, randomLng, <<MovedTo>>)
  /\ UNCHANGED <<orchVars, gpsPending, sections, lastUpdated>>

\* useCurrentLocation(): asks the platform for a position
UseCurrentLocation ==
  /\ gpsPending < MaxGps
  /\ IF GeolocationSupported
     THEN gpsPending' = gpsPending + 1 /\ notice' = <<>>
     ELSE gpsPending' = gpsPending /\ notice' = <<GeolocationUnsupported>>
  /\ UNCHANGED <<orchVars, userLocation, calls, sections, lastUpdated>>

\* a success callback that assigns userLocation.lat and userLocation.lng and
\* leaves the name
GpsSuccessKeepsName(fix) ==
  /\ gpsPending > 0
  /\ CanLocationCall
  /\ gpsPending' = gpsPending - 1
  /\ userLocation' = [lat |-> clampedLat(fix[1]), lng |-> clampedLng(fix[2]),
                      name |-> userLocation.name]
  /\ notice' = <<GpsDetected>>
  /\ calls' = LocationCall(calls, userLocation')
  /\ UNCHANGED <<orchVars, sections, lastUpdated>>

\* the success callback of getCurrentPosition
GpsSuccess(fix) ==
  /\ gpsPending > 0
  /\ CanLocationCall
  /\ gpsPending' = gpsPending - 1
  /\ LET lat == clampedLat(fix[1])
         lng == clampedLng(fix[2])
         nearestLocation == NearestTable[fix]
     IN userLocation' = [lat |-> lat, lng |-> lng,
                         name |-> nearestLocation.name]
  /\ notice' = <<GpsDetected>>
  /\ calls' = LocationCall(calls, userLocation')
  /\ UNCHANGED <<orchVars, sections, lastUpdated>>

\* an error callback that asks for the position again
GpsErrorRetries(code) ==
  /\ gpsPending > 0
  /\ gpsPending' = gpsPending
  /\ notice' = <<GpsFailed(code)>>
  /\ UNCHANGED <<orchVars, userLocation, calls, sections, lastUpdated>>

\* the error callback of getCurrentPosition
GpsError(code) ==
  /\ gpsPending > 0
  /\ gpsPending' = gpsPending - 1
  /\ notice' = <<GpsFailed(code)>>
  /\ UNCHANGED <<orchVars, userLocation, calls, sections, lastUpdated>>

\* The dashboard once the page has loaded in the foreground and the first
\* refresh cycle has rendered every section
InitLoc ==
  /\ updateInterval = 1
  /\ timers = {1}
  /\ hidden = FALSE
  /\ loaded = TRUE
  /\ userLocation = DefaultLocation
  /\ calls = [c \in Slots |->
                IF c = 1
                THEN [FreeCall EXCEPT !.phase = "done", !.kind = "refresh",
                                      !.stamps = 1]
                ELSE FreeCall]
  /\ sections = [u \in Units |->
                   IF u = "recs"
                   THEN [kind |-> "data", lat |-> DefaultLocation.lat,
                         lng |-> DefaultLocation.lng]
                   ELSE DataSection]
  /\ lastUpdated = 1
  /\ gpsPending = 0
  /\ lastPageEvent = "load"
  /\ notice = <<>>

NextLoc ==
  \/ \E t \in LocInputs, a \in RandomLats, b \in RandomLngs :
       UpdateUserLocation(t, a, b)
  \/ \E q \in QuickLocations, a \in RandomLats, b \in RandomLngs :
       SetQuickLocation(q, a, b)
  \/ UseCurrentLocation
  \/ \E f \in GpsFixes : GpsSuccess(f)
  \/ \E e \in GpsErrors : GpsError(e)
  \/ \E c \in Slots, u \in Units, o \in Outcomes : Settle(c, u, o)

SpecLoc == InitLoc /\ [][NextLoc]_vars

Next ==
  \/ DOMContentLoaded
  \/ PageHidden
  \/ PageVisible
  \/ BeforeUnload
  \/ \E t \in TimerIds : TimerTick(t)
  \/ \E c \in Slots, u \in Units, o \in Outcomes : Settle(c, u, o)

Spec == Init /\ [][Next]_vars

\* setInterval(refreshData, 3000): an armed timer goes on firing
LiveSpec == Init /\ [][Next]_vars /\ WF_vars(\E t \in TimerIds : TimerTick(t))

\* The orchestrator and the location handlers side by side, from the loaded
\* page on, with few inputs: a text that resolves and an empty one, a quick
\* location, one GPS fix, one GPS error, and fetches that succeed, or fail
\* in a unit that only logs (system stats) and in one that shows an error
\* message (recommendations).  The user changes the location between refresh
\* cycles, and the timer fires when the fetches of a location change are over
WholeTexts == { <<"M", "a", "l", "l">>, <<>> }

WholeFixes == { <<4000, -7400>> }

WholeErrors == {"TIMEOUT"}

WholeFailing == {"stats", "recs"}

\* no fetch of a refresh cycle is in flight
RefreshQuiet == \A c \in RefreshSlots : calls[c].pending = {}

\* no fetch of a location change is in flight
LocationQuiet == \A c \in LocSlots : calls[c].pending = {}

NextWhole ==
  \/ PageHidden
  \/ LocationQuiet /\ PageVisible
  \/ BeforeUnload
  \/ \E t \in TimerIds : LocationQuiet /\ TimerTick(t)
  \/ \E t \in WholeTexts, a \in RandomLats, b \in RandomLngs :
       RefreshQuiet /\ UpdateUserLocation(t, a, b)
  \/ \E q \in QuickLocations, a \in RandomLats, b \in RandomLngs :
       RefreshQuiet /\ SetQuickLocation(q, a, b)
  \/ UseCurrentLocation
  \/ \E f \in WholeFixes : RefreshQuiet /\ GpsSuccess(f)
  \/ \E e \in WholeErrors : GpsError(e)
  \/ \E c \in Slots, u \in Units : Settle(c, u, "ok")
  \/ \E c \in Slots, u \in WholeFailing : Settle(c, u, "neterr")

SpecWhole == InitLoc /\ [][NextWhole]_vars

\* Refresh cycles that overlap, from the loaded page on: nothing in
\* refreshData or in its callers looks at the cycles in flight, so a timer
\* tick, the page becoming visible and the delayed refresh of simulateParking
\* start a cycle next to the pending ones.  The location stays as it is
OverlapSlots == 1..MaxOverlap

\* refreshData is waiting for units of cycle c
InFlight(c) ==
  calls[c].phase = "open" /\ calls[c].kind = "refresh" /\ calls[c].pending # {}

\* a tick that is dropped while a cycle is in flight
TickAfterCompletion(t) ==
  /\ t \in timers
  /\ \A c \in OverlapSlots : ~InFlight(c)
  /\ CanStart(calls, OverlapSlots)
  /\ calls' = StartCall(calls, OverlapSlots, "refresh", Units, userLocation)
  /\ notice' = <<>>
  /\ UNCHANGED <<orchVars, locVars, sections, lastUpdated>>

\* an armed interval timer fires: refreshData()
OverlapTick(t) ==
  /\ t \in timers
  /\ CanStart(calls, OverlapSlots)
  /\ calls' = StartCall(calls, OverlapSlots, "refresh", Units, userLocation)
  /\ notice' = <<>>
  /\ UNCHANGED <<orchVars, locVars, sections, lastUpdated>>

\* visibilitychange with the page visible: startRealTimeUpdates(); refreshData()
OverlapVisible ==
  /\ loaded /\ hidden
  /\ CanArm(timers) /\ CanStart(calls, OverlapSlots)
  /\ hidden' = FALSE
  /\ updateInterval' = startRealTimeUpdates(updateInterval, timers).updateInterval
  /\ timers' = startRealTimeUpdates(updateInterval, timers).timers
  /\ calls' = StartCall(calls, OverlapSlots, "refresh", Units, userLocation)
  /\ lastPageEvent' = "visible"
  /\ notice' = <<>>
  /\ UNCHANGED <<loaded, locVars, sections, lastUpdated>>

\* setTimeout(refreshData, 1000) of simulateParking fires, a second after the
\* parking request has been answered: refreshData()
ParkingRefresh ==
  /\ loaded
  /\ CanStart(calls, OverlapSlots)
  /\ calls' = StartCall(calls, OverlapSlots, "refresh", Units, userLocation)
  /\ notice' = <<>>
  /\ UNCHANGED <<orchVars, locVars, sections, lastUpdated>>

NextOverlap ==
  \/ PageHidden
  \/ OverlapVisible
  \/ \E t \in TimerIds : OverlapTick(t)
  \/ ParkingRefresh
  \/ \E c \in OverlapSlots, u \in Units : Settle(c, u, "ok")
  \/ \E c \in OverlapSlots, u \in WholeFailing : Settle(c, u, "neterr")

SpecOverlap == InitLoc /\ [][NextOverlap]_vars

----------------------------------------------------------------------------
(* Steps, as seen from the two states of a step *)

\* unit u of cycle c, on which refreshData is waiting, settles
SettleStep(c, u) ==
  /\ calls[c].phase = "open" /\ calls[c].kind = "refresh"
  /\ u \in calls[c].pending
  /\ u \notin calls'[c].pending

\* ... and its fetch failed or brought a non-success response
FailStep(c, u) == SettleStep(c, u) /\ u \in calls'[c].failed

\* the refresh cycles that the step starts
StartedCycles ==
  {c \in RefreshSlots :
     /\ calls'[c] # calls[c]
     /\ calls'[c].phase = "open"
     /\ calls'[c].kind = "refresh"
     /\ calls'[c].pending = Units}

\* the orchestrator is Running: the page is loaded and visible and no unload
\* has stopped the timer since
Running == loaded /\ ~hidden /\ lastPageEvent # "unload"

\* a refresh cycle has ended in which at least one unit failed
FailedCycle ==
  \E c \in RefreshSlots : calls[c].phase = "done" /\ calls[c].failed # {}

\* refreshData has just been invoked: all six fetches are in flight
FreshCycle ==
  \E c \in RefreshSlots : calls[c].phase = "open" /\ calls[c].pending = Units

\* the step is a text resolution that succeeds: updateUserLocation gets past
\* its two early returns
TextResolutionStep ==
  \E t \in WholeTexts \cup QuickLocations, a \in RandomLats, b \in RandomLngs :
    /\ ~UpdateRejects(t)
    /\ UpdateUserLocation(t, a, b) \/ SetQuickLocation(t, a, b)

\* the step is the success callback of a position request made before
GpsFixStep == gpsPending > 0 /\ \E f \in WholeFixes : GpsSuccess(f)

\* the step is one of the orchestrator: a page event, a timer tick, the
\* settling of a unit
OrchestratorStep ==
  \/ PageHidden \/ PageVisible \/ BeforeUnload
  \/ \E t \in TimerIds : TimerTick(t)
  \/ \E c \in Slots, u \in Units, o \in Outcomes : Settle(c, u, o)

\* the step is one of a location handler that resolves nothing: an empty
\* text, the request for a position, its error callback
NoResolutionStep ==
  \/ \E t \in WholeTexts, a \in RandomLats, b \in RandomLngs :
       UpdateRejects(t) /\ UpdateUserLocation(t, a, b)
  \/ UseCurrentLocation
  \/ \E e \in WholeErrors : GpsError(e)

IsBlank(t) == \A i \in 1..Len(t) : t[i] \in WhiteSpace

\* the empty and the whitespace-only inputs of the model
BlankInputs == {t \in LocInputs : IsBlank(t)}

\* parseLocationInput returns null for every blank input of the model
BlankInputsRejected ==
  \A t \in BlankInputs, a \in RandomLats, b \in RandomLngs :
    parseLocationInput(t, a, b) = NoLocation

----------------------------------------------------------------------------
(* Texts the parser is applied to *)

UpperChar(c) ==
  IF \E i \in 1..Len(LowerCase) : LowerCase[i] = c
  THEN UpperCase[CHOOSE i \in 1..Len(LowerCase) : LowerCase[i] = c]
  ELSE c

\* the text in capitals
Capitals(s) == [i \in 1..Len(s) |-> UpperChar(s[i])]

\* the text in capitals as it arrives from an input field, with white space
\* around it
Typed(s) == <<" ">> \o Capitals(s) \o <<" ", "\t">>

KeyIndices == 1..Len(locationDatabase)

\* the submitted texts of the model that are a key of locationDatabase once
\* trimmed and in lower case, with the index of that key
ExactInputs ==
  {t \in LocInputs \cup QuickLocations : OwnKey(trimEnd(trimStart(toLowerCase(t)))) # 0}

ExactEntry ==
  [t \in ExactInputs |-> OwnKey(trimEnd(trimStart(toLowerCase(t))))]

\* texts that are no key, and of which a key is part or which are part of a key
PartialTexts ==
  { <<"t", "o", "w", "n">>,
    <<"c", "i", "t", "y">>,
    <<" ", "C", "i", "t", "y", " ">>,
    <<"s", "t">>,
    <<"a">>,
    <<"d", "i", "s", "t", "r", "i", "c", "t">>,
    <<"t", "h", "e", " ", "O", "F", "F", "I", "C", "E", " ", "t", "o", "w", "e", "r">>,
    <<"E", "a", "s", "t", " ", "o", "f", " ", "t", "h", "e", " ", "m", "a", "l", "l">>,
    <<"p", "a", "r", "k", " ", "3", ".", "5", ",", " ", "4", ".", "2">>,
    <<"c", "i", "t", "y", " ", "p", "a", "r", "k", "s">> }

\* the submitted texts of the model among them
PartialInputs == LocInputs \cap PartialTexts

\* the text as parseLocationInput normalizes it
Normalized(t) == trimEnd(trimStart(toLowerCase(t)))

\* is key i the first key, in declaration order, that is part of n or that n
\* is part of
IsFirstQualifying(i, n) ==
  /\ PartialQualifies(i, n)
  /\ \A j \in 1..(i - 1) : ~PartialQualifies(j, n)

\* the partial result for key i
PartialResult(i) ==
  [lat |-> locationDatabase[i].lat, lng |-> locationDatabase[i].lng,
   name |-> locationDatabase[i].key, type |-> locationDatabase[i].type,
   confidence |-> "partial", match |-> locationDatabase[i].key]

\* has the text neither an exact nor a partial match in locationDatabase
NoTextualMatch(t) ==
  /\ OwnKey(Normalized(t)) = 0
  /\ \A i \in KeyIndices : ~PartialQualifies(i, Normalized(t))

\* the pair of numbers the pattern yields when it is matched from position i
PairAt(s, i) ==
  LET c == CommaAfterFirst(s, i)
      w == SpaceRunEnd(s, c + 1)
  IN [lat |-> parseFloat(SubSeq(s, i, c - 1)),
      lng |-> parseFloat(SubSeq(s, w, NumberEnd(s, w) - 1))]

\* the positions of s from which the pattern matches
MatchStarts(s) == {i \in 1..Len(s) : MatchesAt(s, i)}

\* those of them at which a number begins: no digit and no decimal point
\* stands before them
PairStarts(s) ==
  {i \in MatchStarts(s) : ~IsDigit(CharAt(s, i - 1)) /\ CharAt(s, i - 1) # "."}

\* a pair of numbers in [0,20] x [0,15]; the pattern has no sign
InCity(p) == p.lat <= 20 * Scale /\ p.lng <= 15 * Scale

\* the submitted texts of the model without textual match that hold an
\* occurrence of the pattern
CoordInputs ==
  {t \in LocInputs : ~IsBlank(t) /\ NoTextualMatch(t) /\ MatchStarts(t) # {}}

\* the pairs in [0,20] x [0,15] among all occurrences in the text
PairsInCity ==
  [t \in CoordInputs |-> {p \in {PairAt(t, i) : i \in PairStarts(t)} : InCity(p)}]

\* the pair of the leftmost occurrence in the text
LeftmostPair ==
  [t \in CoordInputs |->
     PairAt(t, CHOOSE i \in MatchStarts(t) : \A j \in MatchStarts(t) : i <= j)]

\* the decimal digits of a natural number
RECURSIVE NatText(_)
NatText(n) ==
  IF n < 10 THEN <<Digits[n + 1]>>
  ELSE NatText(n \div 10) \o <<Digits[(n % 10) + 1]>>

\* c hundredths as a user writes them: "3.5" for 350, "12" for 1200,
\* "7.25" for 725
DecimalText(c) ==
  NatText(c \div Scale) \o
    (IF c % Scale = 0 THEN <<>>
     ELSE IF c % 10 = 0 THEN <<".", Digits[((c % Scale) \div 10) + 1]>>
     ELSE <<".", Digits[((c % Scale) \div 10) + 1], Digits[(c % 10) + 1]>>)

\* a latitude and a longitude written with a comma and white space sp
CoordText(a, b, sp) == DecimalText(a) \o <<",">> \o sp \o DecimalText(b)

\* white space after the comma
Separators == {<<>>, <<" ">>, <<" ", "\t">>}

\* numbers written in the texts: inside the city and on its edges ...
LatsInCity == {0, 5, 350, 725, 1000, 1999, 2000}

LngsInCity == {0, 420, 750, 1499, 1500}

\* ... and beyond them
LatsOutside == {2001, 2050, 9900}

LngsOutside == {1501, 9900}

\* text around the pair that matches no key
Before == <<"@", " ">>

After == <<" ", "!">>

\* a text with one pair inside the city, alone, with white space around it
\* or inside other text, resolves to that pair with confidence coordinates
CoordinateTextsResolved ==
  \A a \in LatsInCity, b \in LngsInCity, sp \in Separators,
     ra \in RandomLats, rb \in RandomLngs :
    LET t == CoordText(a, b, sp)
        result(name) ==
          [lat |-> a, lng |-> b, name |-> name, type |-> "custom",
           confidence |-> "coordinates", match |-> <<>>]
    IN /\ parseLocationInput(t, ra, rb) = result(t)
       /\ parseLocationInput(<<" ">> \o t \o <<"\n">>, ra, rb) = result(t)
       /\ parseLocationInput(Before \o t \o After, ra, rb)
            = result(Before \o t \o After)

\* a text with one pair of which a number is beyond the city resolves to
\* the random point with confidence estimated
OutsideTextsEstimated ==
  \A a \in LatsInCity \cup LatsOutside, b \in LngsInCity \cup LngsOutside,
     sp \in Separators, ra \in RandomLats, rb \in RandomLngs :
    (a \in LatsOutside \/ b \in LngsOutside) =>
      LET t == CoordText(a, b, sp)
          result(name) ==
            [lat |-> ra, lng |-> rb, name |-> name, type |-> "unknown",
             confidence |-> "estimated", match |-> <<>>]
      IN /\ parseLocationInput(t, ra, rb) = result(t)
         /\ parseLocationInput(<<" ">> \o t \o <<"\n">>, ra, rb) = result(t)
         /\ parseLocationInput(Before \o t \o After, ra, rb)
              = result(Before \o t \o After)

\* the random point lies in the city
RandomInCity ==
  \A ra \in RandomLats, rb \in RandomLngs :
    ra >= 0 /\ ra <= 20 * Scale /\ rb >= 0 /\ rb <= 15 * Scale

\* GPS latitudes and longitudes in hundredths of a degree: the reference
\* point, the fixes that map onto the edges of the city, their neighbours
\* and far-away ones
GpsLatSamples == {-9000, 0, 3949, 3950, 3951, 4000, 4025, 4049, 4050, 4051, 5150, 9000}

GpsLngSamples == {-18000, -7451, -7450, -7449, -7400, -7375, -7351, -7350, -7349, -12, 18000}

\* clamp(x, 0, hi)
Clamp(x, hi) == IF x < 0 THEN 0 ELSE IF x > hi THEN hi ELSE x

\* the local coordinates of the GPS point (gpsLat, gpsLng)
LocalLat(gpsLat) == Clamp((gpsLat - 40 * Scale) * 20 + 10 * Scale, 20 * Scale)

LocalLng(gpsLng) == Clamp((gpsLng + 74 * Scale) * 15 + (75 * Scale) \div 10, 15 * Scale)

\* the conversion computes the clamped affine map, (40.0, -74.0) goes to
\* (10, 7.5) and every sample goes into the city
LocalSpaceMapped ==
  /\ clampedLat(40 * Scale) = 10 * Scale
  /\ clampedLng(-74 * Scale) = (75 * Scale) \div 10
  /\ \A la \in GpsLatSamples \cup {f[1] : f \in GpsFixes} :
       /\ clampedLat(la) = LocalLat(la)
       /\ clampedLat(la) >= 0 /\ clampedLat(la) <= 20 * Scale
  /\ \A ln \in GpsLngSamples \cup {f[2] : f \in GpsFixes} :
       /\ clampedLng(ln) = LocalLng(ln)
       /\ clampedLng(ln) >= 0 /\ clampedLng(ln) <= 15 * Scale

\* is entry i nearest to the point, and the first of the nearest entries
IsFirstNearest(i, lat, lng) ==
  /\ \A j \in KeyIndices : SqDistance(i, lat, lng) <= SqDistance(j, lat, lng)
  /\ \A j \in 1..(i - 1) : SqDistance(j, lat, lng) # SqDistance(i, lat, lng)

\* points of the city: on entries, between entries (at the same distance
\* from 'city center' and 'central', from 'main street' and 'west') and in
\* the corners
PointLats == {0, 250, 300, 500, 625, 1000, 1250, 1500, 2000}

PointLngs == {0, 300, 625, 750, 1150, 1500}

\* findNearestLocation returns the first of the nearest entries
NearestIsFirstMinimum ==
  \A lat \in PointLats, lng \in PointLngs :
    \E i \in KeyIndices :
      /\ IsFirstNearest(i, lat, lng)
      /\ findNearestLocation(lat, lng)
           = [name |-> locationDatabase[i].key, lat |-> locationDatabase[i].lat,
              lng |-> locationDatabase[i].lng]

\* the local point and the nearest entry of each GPS fix of the model
FixIndex ==
  [f \in GpsFixes |->
     CHOOSE i \in KeyIndices : IsFirstNearest(i, LocalLat(f[1]), LocalLng(f[2]))]

\* the tier of a non-empty text by the four rules in their order of priority:
\* a key, else part of a key or a key part of it, else a pair of numbers in
\* bounds, else estimated
TierByPriority(t) ==
  IF OwnKey(Normalized(t)) # 0 THEN "exact"
  ELSE IF \E i \in KeyIndices : PartialQualifies(i, Normalized(t)) THEN "partial"
  ELSE IF MatchStarts(t) # {}
          /\ InCity(PairAt(t, CHOOSE i \in MatchStarts(t) :
                                 \A j \in MatchStarts(t) : i <= j))
  THEN "coordinates"
  ELSE "estimated"

\* the submitted texts of the model that are not blank, with their tier
TierTable == [t \in {x \in LocInputs : ~IsBlank(x)} |-> TierByPriority(t)]

\* every key, as it is and typed in capitals with white space around it,
\* resolves to its own entry with confidence exact
ExactKeysResolved ==
  \A i \in KeyIndices, a \in RandomLats, b \in RandomLngs :
    LET k == locationDatabase[i].key
        entry(name) ==
          [lat |-> locationDatabase[i].lat, lng |-> locationDatabase[i].lng,
           name |-> name, type |-> locationDatabase[i].type,
           confidence |-> "exact", match |-> <<>>]
    IN /\ parseLocationInput(k, a, b) = entry(k)
       /\ parseLocationInput(Typed(k), a, b) = entry(Capitals(k))

\* every text of PartialTexts resolves to the first qualifying key
PartialTextsResolved ==
  \A t \in PartialTexts, a \in RandomLats, b \in RandomLngs :
    /\ OwnKey(Normalized(t)) = 0
    /\ \E i \in KeyIndices : IsFirstQualifying(i, Normalized(t))
    /\ \A i \in KeyIndices :
         IsFirstQualifying(i, Normalized(t)) =>
           parseLocationInput(t, a, b) = PartialResult(i)

\* the location object of line 649 for the result of parseLocationInput
LocationOf(parsedLocation) ==
  [lat |-> parsedLocation.lat, lng |-> parsedLocation.lng,
   name |-> parsedLocation.name]

\* the locations a text resolution of the model assigns
ResolvedByText ==
  {LocationOf(ParseTable[t][a][b]) :
     t \in {x \in DOMAIN ParseTable : x # <<>>}, a \in RandomLats, b \in RandomLngs}

\* the location object of line 729 for a GPS fix
LocationOfFix(f) ==
  [lat |-> clampedLat(f[1]), lng |-> clampedLng(f[2]), name |-> NearestTable[f].name]

\* the locations a GPS fix of the model assigns
ResolvedByGps == {LocationOfFix(f) : f \in GpsFixes}

----------------------------------------------------------------------------
(* Claims *)

\* C1: start() is idempotent: after any sequence of start()/stop() calls at
\* most one interval timer is armed, and it is the one updateInterval holds.
C1_SingleTimer ==
  /\ Cardinality(timers) <= 1
  /\ updateInterval # Null => timers = {updateInterval}

\* C2: whenever the most recent page event is 'hidden' or 'unload', no
\* interval timer is armed.
C2_StoppedWhenHidden ==
  lastPageEvent \in {"hidden", "unload"} => timers = {}

\* C3: refresh() isolates unit failures: whatever units of a cycle have
\* failed, a unit whose fetch succeeds renders its data, the settling of one
\* unit touches no sibling, refresh() does not reach its catch block, and
\* when the last unit settles the time stamp is written.
C3_FailureIsolation ==
  [][\A c \in RefreshSlots, u \in Units :
       SettleStep(c, u) =>
         /\ u \notin calls'[c].failed => sections'[u].kind = "data"
         /\ \A v \in Units \ {u} :
              /\ sections'[v] = sections[v]
              /\ v \in calls[c].pending <=> v \in calls'[c].pending
         /\ ~calls'[c].caught
         /\ notice' = <<>>
         /\ calls'[c].pending = {} =>
              /\ calls'[c].phase = "done"
              /\ calls'[c].stamps = 1
              /\ lastUpdated' = c]_vars

\* a cycle has finished in which some units, but not all, failed
C3_Witness ==
  \E c \in RefreshSlots :
    /\ calls[c].phase = "done" /\ calls[c].kind = "refresh"
    /\ calls[c].failed # {} /\ calls[c].failed # Units
    /\ calls[c].stamps = 1
    /\ \A u \in Units \ calls[c].failed : sections[u].kind = "data"

\* C4: after a refresh() in which exactly one unit failed, the section of the
\* failing unit shows an error state, every other section shows data, and
\* the time stamp is written.
C4_FailingSectionShowsError ==
  \A c \in RefreshSlots :
    (calls[c].phase = "done" /\ Cardinality(calls[c].failed) = 1) =>
      /\ \A u \in calls[c].failed : sections[u].kind = "error"
      /\ \A u \in Units \ calls[c].failed : sections[u].kind = "data"
      /\ calls[c].stamps = 1

\* C5, as claimed: a unit whose fetch fails logs the error, raises a user
\* notification and leaves its section as it was.
C5_NotifiesAndKeepsSection ==
  [][\A c \in RefreshSlots, u \in Units :
       FailStep(c, u) =>
         /\ u \in calls'[c].logged
         /\ notice' # <<>>
         /\ sections'[u] = sections[u]]_vars

\* C5, amended: a unit treats a non-success response and a thrown network
\* error alike; in both cases it logs the error and raises no notification;
\* the system-stats and predictions units leave their section as it was, the
\* parking-lots, recommendations, junctions and map units replace theirs by
\* an error message.
C5_LogsAndMarksError ==
  /\ [](\A c \in RefreshSlots, u \in Units :
          UnitEffect(u, "bad", sections[u], calls[c].lat, calls[c].lng, userLocation)
          = UnitEffect(u, "neterr", sections[u], calls[c].lat, calls[c].lng, userLocation))
  /\ [][\A c \in RefreshSlots, u \in Units :
          FailStep(c, u) =>
            /\ u \in calls'[c].logged
            /\ notice' = <<>>
            /\ u \in {"stats", "predictions"} => sections'[u] = sections[u]
            /\ u \in {"lots", "recs", "junctions", "map"} =>
                 sections'[u].kind = "error"]_vars

\* the parking-lots unit has failed over rendered data, the system-stats
\* unit has failed and still shows its data
C5_Witness ==
  \E c \in RefreshSlots :
    /\ {"stats", "lots"} \subseteq calls[c].failed
    /\ {"stats", "lots"} \subseteq calls[c].logged
    /\ sections["lots"].kind = "error"
    /\ sections["stats"].kind = "data"
    /\ notice = <<>>

\* C6: the time stamp is written by a cycle only after all six of its units
\* have settled, never while one of them is pending, and exactly once.
C6_StampAfterAllSettled ==
  \A c \in RefreshSlots :
    /\ calls[c].pending # {} => calls[c].stamps = 0
    /\ calls[c].phase = "open" => calls[c].stamps = 0
    /\ calls[c].phase = "done" => calls[c].stamps = 1 /\ calls[c].pending = {}

\* a cycle has finished and has written the time stamp
C6_Witness ==
  \E c \in RefreshSlots :
    /\ calls[c].phase = "done" /\ calls[c].pending = {}
    /\ calls[c].stamps = 1 /\ lastUpdated = c

\* C7: on page load and on every change of the page from hidden to visible,
\* the same step arms a timer and starts exactly one refresh cycle.
C7_ImmediateRefresh ==
  [][((~loaded /\ loaded') \/ (hidden /\ ~hidden')) =>
       /\ updateInterval' # Null
       /\ updateInterval' \in timers'
       /\ updateInterval' \notin timers
       /\ Cardinality(StartedCycles) = 1]_vars

\* the page has just become visible: a timer is armed and a cycle in flight
C7_Witness ==
  /\ lastPageEvent = "visible"
  /\ updateInterval \in timers
  /\ \E c \in RefreshSlots : calls[c].phase = "open" /\ calls[c].pending = Units

\* C8: stop() clears the timer updateInterval holds if there is one and does
\* nothing otherwise: after it updateInterval is null, and a stop() in the
\* Stopped state (so also the second of two in a row) changes neither the
\* timers nor anything else of the dashboard.
C8_StopIdempotent ==
  [][(PageHidden \/ BeforeUnload) =>
       /\ updateInterval' = Null
       /\ timers' = timers \ {updateInterval}
       /\ updateInterval = Null =>
            UNCHANGED <<timers, updateInterval, calls, sections, lastUpdated,
                        userLocation, gpsPending>>]_vars

\* stop() has run on a page that was hidden before: it was the second stop
C8_Witness ==
  /\ lastPageEvent = "unload"
  /\ hidden
  /\ updateInterval = Null

\* C9: the live userLocation always has lat in [0,20] and lng in [0,15].
C9_LocationInBounds == CoordInBounds(userLocation.lat, userLocation.lng)

\* C10: for empty or whitespace-only input parsing yields no location, and
\* updateUserLocation leaves userLocation as it was and starts no
\* recommendations or map update.
C10_BlankInputIgnored ==
  /\ [](BlankInputsRejected)
  /\ [][\A t \in BlankInputs, a \in RandomLats, b \in RandomLngs :
          UpdateUserLocation(t, a, b) =>
            UNCHANGED <<userLocation, calls, sections>>]_vars

\* a blank input has been submitted after the location had been changed
C10_Witness ==
  /\ notice = <<EnterLocation>>
  /\ userLocation # DefaultLocation

\* C11: an input that is a key of locationDatabase once trimmed and in lower
\* case resolves with confidence exact to the coordinates and type of that
\* key, with the trimmed input as name, also when a key that qualifies as a
\* partial match is declared earlier; updateUserLocation stores that point.
C11_ExactMatchWins ==
  /\ [](ExactKeysResolved)
  /\ [][\A t \in ExactInputs, a \in RandomLats, b \in RandomLngs :
          (UpdateUserLocation(t, a, b) \/ SetQuickLocation(t, a, b)) =>
            userLocation' = [lat |-> locationDatabase[ExactEntry[t]].lat,
                             lng |-> locationDatabase[ExactEntry[t]].lng,
                             name |-> trim(t)]]_vars

\* "Mall" has been submitted: 'shopping mall', declared before 'mall',
\* contains it, and the location is the entry of 'mall' under the name typed
C11_Witness ==
  /\ userLocation = [lat |-> 8 * Scale, lng |-> 7 * Scale,
                     name |-> <<"M", "a", "l", "l">>]
  /\ \E i \in KeyIndices :
       /\ i < OwnKey(<<"m", "a", "l", "l">>)
       /\ PartialQualifies(i, <<"m", "a", "l", "l">>)
  /\ notice = <<UpdatedMessage("exact")>>

C13_AnyPairInBounds ==
  [][\A t \in CoordInputs, a \in RandomLats, b \in RandomLngs :
       (UpdateUserLocation(t, a, b) /\ PairsInCity[t] # {}) =>
         \E p \in PairsInCity[t] :
           userLocation' = [lat |-> p.lat, lng |-> p.lng, name |-> trim(t)]]_vars

\* C13, amended: an input without textual match resolves by the leftmost
\* occurrence of the pattern only: when its first number is in [0,20] and
\* its second in [0,15], the result has confidence 'coordinates', these two
\* numbers as lat and lng, the trimmed input as name and type custom
\* ("3.5, 4.2" gives lat 3.5 and lng 4.2); occurrences further right are not
\* looked at.
C13_LeftmostPairInBounds ==
  /\ [](CoordinateTextsResolved)
  /\ [][\A t \in CoordInputs, a \in RandomLats, b \in RandomLngs :
          UpdateUserLocation(t, a, b) =>
            IF InCity(LeftmostPair[t])
            THEN /\ userLocation' = [lat |-> LeftmostPair[t].lat,
                                     lng |-> LeftmostPair[t].lng,
                                     name |-> trim(t)]
                 /\ notice' = <<UpdatedMessage("coordinates")>>
            ELSE /\ userLocation' = [lat |-> a, lng |-> b, name |-> trim(t)]
                 /\ notice' = <<UpdatedMessage("estimated")>>]_vars

\* "3.5, 4.2" has been submitted and the location is (3.5, 4.2)
C13_Witness ==
  /\ userLocation = [lat |-> 350, lng |-> 420,
                     name |-> <<"3", ".", "5", ",", " ", "4", ".", "2">>]
  /\ notice = <<UpdatedMessage("coordinates")>>

\* C14: an input without textual match whose extracted pair is out of bounds
\* does not fail and does not resolve to that pair: the result has confidence
\* estimated, a point inside [0,20] x [0,15], type unknown and the trimmed
\* input as name.
C14_OutOfBoundsEstimated ==
  /\ [](OutsideTextsEstimated /\ RandomInCity)
  /\ [][\A t \in CoordInputs, a \in RandomLats, b \in RandomLngs :
          (UpdateUserLocation(t, a, b) /\ ~InCity(LeftmostPair[t])) =>
            /\ userLocation' = [lat |-> a, lng |-> b, name |-> trim(t)]
            /\ InCity(userLocation')
            /\ userLocation'.lat >= 0 /\ userLocation'.lng >= 0
            /\ notice' = <<UpdatedMessage("estimated")>>]_vars

\* "99, 99" has been submitted and the location is a point of the city
C14_Witness ==
  /\ userLocation.name = <<"9", "9", ",", " ", "9", "9">>
  /\ InCity(userLocation)
  /\ userLocation.lat >= 0 /\ userLocation.lng >= 0
  /\ notice = <<UpdatedMessage("estimated")>>

\* C15: when the GPS acquisition fails with PERMISSION_DENIED,
\* POSITION_UNAVAILABLE or TIMEOUT, one error notification is shown, the
\* request is over and no new one is issued, userLocation keeps its value
\* and neither the recommendations nor the map are fetched.
C15_GpsFailureKeepsLocation ==
  [][\A e \in GpsErrors :
       GpsError(e) =>
         /\ Len(notice') = 1 /\ notice'[1].type = "error"
         /\ gpsPending' = gpsPending - 1
         /\ userLocation' = userLocation
         /\ calls' = calls
         /\ sections' = sections]_vars

\* the acquisition has timed out after the location had been changed: the
\* changed location is still there and no request is outstanding
C15_Witness ==
  /\ notice = <<GpsFailed("TIMEOUT")>>
  /\ userLocation # DefaultLocation
  /\ gpsPending = 0
  /\ \A c \in LocSlots : calls[c].pending = {}

\* C16: failures do not stop the refresh cadence: while the orchestrator is
\* Running its timer is armed, the failure of a unit leaves the timers as
\* they are, and after a cycle in which units failed a timer tick eventually
\* invokes refreshData again (unless the page is hidden or unloaded first).
C16_CadenceSurvivesFailures ==
  /\ [](Running => updateInterval \in timers)
  /\ [][\A c \in RefreshSlots, u \in Units :
          FailStep(c, u) => UNCHANGED <<timers, updateInterval>>]_vars
  /\ (Running /\ FailedCycle /\ ~FreshCycle) ~> (FreshCycle \/ ~Running)

\* on a page that has been visible since it loaded, a section shows the
\* error of an earlier cycle and a timer tick has started the next cycle
C16_Witness ==
  /\ Running /\ lastPageEvent = "load"
  /\ updateInterval \in timers
  /\ FreshCycle
  /\ \E u \in Units : sections[u].kind = "error"

\* C17: a GPS fix is mapped by lat = clamp((gpsLat - 40.0) * 20 + 10, 0, 20)
\* and lng = clamp((gpsLng + 74.0) * 15 + 7.5, 0, 15): (40.0, -74.0) goes to
\* (10, 7.5), every fix goes into [0,20] x [0,15], and a fix always yields
\* the same location: its local point under the name of the nearest entry.
C17_LocalSpace ==
  /\ [](LocalSpaceMapped)
  /\ [][\A f \in GpsFixes :
          GpsSuccess(f) =>
            /\ userLocation' = [lat |-> LocalLat(f[1]), lng |-> LocalLng(f[2]),
                                name |-> locationDatabase[FixIndex[f]].key]
            /\ userLocation'.lat >= 0 /\ userLocation'.lat <= 20 * Scale
            /\ userLocation'.lng >= 0 /\ userLocation'.lng <= 15 * Scale
            /\ (f = <<40 * Scale, -74 * Scale>> =>
                  userLocation'.lat = 1000 /\ userLocation'.lng = 750)]_vars

\* the fix (40.0, -74.0) has arrived and the location is (10, 7.5)
C17_Witness ==
  /\ userLocation.lat = 1000 /\ userLocation.lng = 750
  /\ userLocation.name = <<"c", "e", "n", "t", "r", "a", "l">>
  /\ notice = <<GpsDetected>>

\* C18: findNearestLocation returns an entry at minimal distance from the
\* point, and of several entries at that distance the one declared first.
C18_NearestFirstMinimum ==
  /\ [](NearestIsFirstMinimum)
  /\ [][\A f \in GpsFixes :
          GpsSuccess(f) =>
            \E i \in KeyIndices :
              /\ IsFirstNearest(i, userLocation'.lat, userLocation'.lng)
              /\ userLocation'.name = locationDatabase[i].key]_vars

\* a fix beyond the north-east corner has arrived: 'city park' and its alias
\* 'park' are the nearest entries and the location bears the name 'city park'
C18_Witness ==
  /\ userLocation = [lat |-> 20 * Scale, lng |-> 15 * Scale,
                     name |-> <<"c", "i", "t", "y", " ", "p", "a", "r", "k">>]
  /\ \E i, j \in KeyIndices :
       /\ i < j
       /\ IsFirstNearest(i, userLocation.lat, userLocation.lng)
       /\ SqDistance(j, userLocation.lat, userLocation.lng)
            = SqDistance(i, userLocation.lat, userLocation.lng)
  /\ notice = <<GpsDetected>>

\* C19: userLocation is written only by a text resolution that succeeds and
\* by the success callback of a position request; page events (start, stop),
\* timer ticks, refreshData and its units, and the location handlers that
\* resolve nothing leave it as it is.
C19_LocationWriters ==
  [][/\ userLocation' # userLocation => (TextResolutionStep \/ GpsFixStep)
     /\ (OrchestratorStep \/ NoResolutionStep) => userLocation' = userLocation]_vars

\* the location has been changed by text, and since then a timer tick has
\* started a refresh cycle of which units have settled, one of them failing
C19_Witness ==
  /\ userLocation.name = <<"M", "a", "l", "l">>
  /\ \E c \in RefreshSlots :
       /\ calls[c].phase = "open"
       /\ calls[c].pending # Units
       /\ calls[c].failed # {}

\* C20: parsing is total on non-empty input: for a text that is not blank
\* parseLocationInput returns a location with numeric lat and lng whose
\* confidence is the tier the priority exact, partial, coordinates, estimated
\* gives, and updateUserLocation stores it; only for blank text is there no
\* result.
C20_TotalByPriority ==
  [][\A t \in LocInputs, a \in RandomLats, b \in RandomLngs :
       UpdateUserLocation(t, a, b) =>
         LET r == ParseTable[trim(t)][a][b]
         IN IF IsBlank(t)
            THEN r = NoLocation /\ userLocation' = userLocation
            ELSE /\ r # NoLocation
                 /\ r.confidence = TierTable[t]
                 /\ r.lat # Undefined /\ r.lng # Undefined
                 /\ userLocation' = [lat |-> r.lat, lng |-> r.lng,
                                     name |-> r.name]]_vars

\* C21: the notification 'Failed to refresh data' is raised by the catch
\* block of refreshData only, in the step in which the awaited Promise.all
\* rejects, and once per cycle; a unit that handles its failure in its own
\* catch block raises none, and a cycle in which every failing unit has done
\* so ends without it, whatever the number of units that failed.
C21_AggregateNoticeOnlyOnReject ==
  /\ [](\A c \in RefreshSlots :
          calls[c].failed \subseteq calls[c].logged => ~calls[c].caught)
  /\ [][/\ (\E i \in 1..Len(notice') : notice'[i] = RefreshFailed) =>
             /\ notice' = <<RefreshFailed>>
             /\ Cardinality({c \in RefreshSlots :
                               ~calls[c].caught /\ calls'[c].caught}) = 1
        /\ \A c \in RefreshSlots, u \in Units :
             (FailStep(c, u) /\ u \in calls'[c].logged) =>
               /\ notice' = <<>>
               /\ ~calls'[c].caught
        /\ \A c \in RefreshSlots :
             calls[c].caught => (calls'[c].caught \/ calls'[c].pending = Units)]_vars

\* a cycle has ended in which all six units failed and handled their
\* failure: the time stamp is written and no notification is shown
C21_Witness ==
  \E c \in RefreshSlots :
    /\ calls[c].phase = "done" /\ calls[c].kind = "refresh"
    /\ calls[c].failed = Units /\ calls[c].logged = Units
    /\ ~calls[c].caught
    /\ calls[c].stamps = 1
    /\ notice = <<>>

\* C22: userLocation is replaced as a whole in one step: a text resolution
\* that succeeds sets it to exactly the lat, lng and name parseLocationInput
\* returned, a GPS fix to exactly the clamped local lat and lng and the name
\* of the nearest entry; in every state userLocation is the initial location
\* or the complete result of one resolution, never lat, lng and name of two.
\* (Each of these handlers shows a message, so only steps that leave one are
\* looked at.)
C22_ReplacedWholesale ==
  /\ [](userLocation \in {DefaultLocation} \cup ResolvedByText \cup ResolvedByGps)
  /\ [][notice' # <<>> =>
          /\ \A t \in LocInputs, a \in RandomLats, b \in RandomLngs :
               (~UpdateRejects(t) /\ UpdateUserLocation(t, a, b)) =>
                 userLocation' = LocationOf(ParseTable[trim(t)][a][b])
          /\ \A q \in QuickLocations, a \in RandomLats, b \in RandomLngs :
               (~UpdateRejects(q) /\ SetQuickLocation(q, a, b)) =>
                 userLocation' = LocationOf(ParseTable[trim(q)][a][b])
          /\ \A f \in GpsFixes :
               GpsSuccess(f) => userLocation' = LocationOfFix(f)]_vars

\* a GPS fix has replaced a location set by text, of which the
\* recommendations request is still in flight: no field of the earlier
\* location is left
C22_Witness ==
  /\ userLocation \in ResolvedByGps
  /\ notice = <<GpsDetected>>
  /\ \E c \in LocSlots, r \in ResolvedByText :
       /\ "recs" \in calls[c].pending
       /\ calls[c].lat = r.lat /\ calls[c].lng = r.lng
       /\ r.lat # userLocation.lat /\ r.lng # userLocation.lng
       /\ r.name # userLocation.name

\* C23: refresh cycles may overlap.  A timer tick, the page becoming visible
\* and the refresh after parking start a new cycle whether or not units of
\* earlier cycles are pending, and leave those cycles as they are; an armed
\* timer can fire while a cycle is in flight (up to MaxOverlap cycles at a
\* time); and the completion of a unit or of a cycle leaves the timer as it
\* is: the period does not depend on it.
C23_CyclesMayOverlap ==
  /\ [](\A t \in timers :
          CanStart(calls, OverlapSlots) => ENABLED OverlapTick(t))
  /\ [][/\ ((\E t \in TimerIds : OverlapTick(t)) \/ OverlapVisible \/ ParkingRefresh) =>
             /\ Cardinality({c \in OverlapSlots :
                               ~InFlight(c) /\ calls'[c].phase = "open"
                               /\ calls'[c].pending = Units}) = 1
             /\ \A c \in OverlapSlots : InFlight(c) => calls'[c] = calls[c]
        /\ (\E c \in OverlapSlots, u \in Units : SettleStep(c, u)) =>
             UNCHANGED <<timers, updateInterval>>]_vars

\* two refresh cycles are in flight while the timer is armed, the earlier
\* one with some of its units settled
C23_Witness ==
  /\ updateInterval \in timers
  /\ \E c, d \in OverlapSlots :
       /\ c # d
       /\ InFlight(c) /\ calls[c].pending # Units
       /\ InFlight(d) /\ calls[d].pending = Units

\* C24: the refresh cadence is independent of location changes.  A step of
\* updateUserLocation, setQuickLocation or useCurrentLocation (the request,
\* its success and its error callback) leaves the timers and updateInterval
\* as they are, leaves every refresh cycle and the time stamp as they are,
\* and starts at most the recommendations and the map unit; when these two
\* settle, the time stamp and the timers stay as they are.
C24_CadenceIgnoresLocation ==
  [][/\ (TextResolutionStep \/ GpsFixStep \/ NoResolutionStep) =>
          /\ UNCHANGED <<timers, updateInterval, lastUpdated, sections>>
          /\ \A c \in RefreshSlots : calls'[c] = calls[c]
          /\ \A c \in LocSlots :
               calls'[c] # calls[c] =>
                 /\ calls'[c].kind = "loc"
                 /\ calls'[c].pending = LocationUnits
                 /\ calls'[c].stamps = 0
     /\ \A c \in LocSlots, u \in Units :
          (calls[c].kind = "loc" /\ u \in calls[c].pending
           /\ u \notin calls'[c].pending) =>
            /\ UNCHANGED <<timers, updateInterval, lastUpdated>>
            /\ calls'[c].stamps = 0
            /\ \A d \in RefreshSlots : calls'[d] = calls[d]]_vars

\* the timer has been stopped by an unload the user cancelled; the location
\* has then been changed by text, of its two units the recommendations have
\* been rendered for it and the map is pending; no timer is armed and the
\* time stamp is that of the first cycle
C24_Witness ==
  /\ lastPageEvent = "unload" /\ ~hidden
  /\ timers = {} /\ updateInterval = Null
  /\ userLocation.name = <<"M", "a", "l", "l">>
  /\ sections["recs"] = [kind |-> "data", lat |-> userLocation.lat,
                         lng |-> userLocation.lng]
  /\ \E c \in LocSlots : calls[c].kind = "loc" /\ calls[c].pending = {"map"}
  /\ lastUpdated = 1
  /\ calls[1].phase = "done" /\ calls[1].stamps = 1

\* C25: rendered recommendations are never stale with respect to the
\* location: once no recommendations fetch is in flight, the recommendations
\* on the page are those fetched for the current userLocation, in whatever
\* order the responses to earlier requests have arrived.
C25_RecommendationsCurrent ==
  ((\A c \in Slots : "recs" \notin calls[c].pending)
   /\ sections["recs"].kind = "data") =>
    /\ sections["recs"].lat = userLocation.lat
    /\ sections["recs"].lng = userLocation.lng

\* C26: the location action started last wins: when a position request is
\* outstanding and the user has since set the location by text or quick
\* button (the step before was that resolution, its message is showing), the
\* success callback of the request leaves userLocation as the user set it.
C26_NewerChoiceKept ==
  [][\A f \in GpsFixes :
       (/\ Len(notice) >= 1
        /\ \E k \in {"exact", "partial", "estimated"} : notice[1] = UpdatedMessage(k)
        /\ GpsSuccess(f)) =>
         userLocation' = userLocation]_vars

\* C27: parseLocationInput returns confidence exact only for a text that is
\* a declared key of locationDatabase once trimmed and in lower case; for
\* every other text that is not blank, the names of inherited properties
\* ('constructor', '__proto__') among them, the result has confidence
\* partial, coordinates or estimated and numeric lat and lng, and so has the
\* location updateUserLocation stores.
C27_ExactOnlyForDeclaredKeys ==
  [][\A t \in LocInputs, a \in RandomLats, b \in RandomLngs :
       (~IsBlank(t) /\ UpdateUserLocation(t, a, b)) =>
         LET r == ParseTable[trim(t)][a][b]
         IN /\ r.confidence = "exact" <=> OwnKey(Normalized(t)) # 0
            /\ OwnKey(Normalized(t)) = 0 =>
                 /\ r.confidence \in {"partial", "coordinates", "estimated"}
                 /\ r.lat \in 0..MaxLat /\ r.lng \in 0..MaxLng
                 /\ userLocation'.lat \in 0..MaxLat
                 /\ userLocation'.lng \in 0..MaxLng]_vars

====
